---- MODULE Spec2Model ----
(***************************************************************************)
(* A model of simplefs (SFS): a fixed 64-block filesystem.  The top-level  *)
(* object SFS (fs.rs) owns a block device, a superblock, the data-region   *)
(* bitmap and the inode group.  The model covers create (format),          *)
(* from_block_storage (mount), open, write_dir, read_dir, read_file and    *)
(* the readdir handler of the bridge.                                      *)
(* The bitmap, the inode group, the superblock and the block device are    *)
(* modelled from their documented contracts.                               *)
(*                                                                         *)
(* Bytes are modelled as one-character tokens: "/", ":", letters, digits,  *)
(* "NL" for the newline byte and "NUL" for the zero byte.  A byte string   *)
(* is a sequence of tokens.                                                *)
(***************************************************************************)
EXTENDS Integers, Sequences, FiniteSets, TLC

\* ---------------------------------------------------------------- bounds
\* Longest file name handed to open, in bytes.
MaxNameLen == 2

\* Files created in one mount, where the paths vary.
MaxCreates == 3

\* Largest inode number and largest offset handed to readdir.
MaxIno == 3

MaxOffset == 3

\* ------------------------------------------------------------- constants
SB_MAGIC == 1397117762          \* 0x5346_5342

BLOCK_SIZE == 4096

NODE_SIZE == 256

\* Number of inode blocks read by from_block_storage.
INODE_BLOCKS == 5

\* sb.inodes_count = 5 * (BLOCK_SIZE / NODE_SIZE)
INODES_COUNT == 5 * (BLOCK_SIZE \div NODE_SIZE)

\* sb.blocks_count
BLOCKS_COUNT == 56

\* Inodes held by one inode block.
NODES_PER_BLOCK == BLOCK_SIZE \div NODE_SIZE

\* First block index of the data region, and the size of the volume.
DATA_START == 8

TOTAL_BLOCKS == 64

\* Direct block pointers of one inode.
NUM_BLOCK_PTRS == 15

\* Mode of the root directory inode (0x4000).
DIR_MODE == 16384

OpenMode == {"RO", "WO", "RW", "DIRECTORY", "CREATE"}

\* ---------------------------------------------------------- byte strings
Min(a, b) == IF a < b THEN a ELSE b

\* The file names used: "a", "aa", ...
Names == {[i \in 1..n |-> "a"] : n \in 1..MaxNameLen}

\* The paths handed to open: the empty path, relative paths, the root, its
\* parent, and absolute paths of one and of two components, one of them
\* with a trailing separator.
Paths ==
    {<<>>, <<"/">>, <<"/", ".", ".">>, <<"/", "a", "/">>} \cup Names
        \cup {<<"/">> \o n : n \in Names}
        \cup {<<"/">> \o n \o <<"/">> \o m : n \in Names, m \in Names}

DigitChars == <<"0", "1", "2", "3", "4", "5", "6", "7", "8", "9">>

\* format!("{}", v) for an unsigned integer.
RECURSIVE Digits(_)
Digits(n) ==
    IF n < 10 THEN <<DigitChars[n + 1]>>
    ELSE Append(Digits(n \div 10), DigitChars[(n % 10) + 1])

IsDigit(c) == \E d \in 1..10 : DigitChars[d] = c

DigitVal(c) == (CHOOSE d \in 1..10 : DigitChars[d] = c) - 1

\* str::parse::<u32>: -1 stands for Err.  Inode numbers have at most two
\* digits; strings of more than nine digits are taken as out of range.
RECURSIVE ParseNat(_, _)
ParseNat(s, acc) ==
    IF s = <<>> THEN acc
    ELSE ParseNat(Tail(s), acc * 10 + DigitVal(Head(s)))

ParseU32(s) ==
    IF s = <<>> \/ Len(s) > 9 \/ \E i \in 1..Len(s) : ~IsDigit(s[i]) THEN -1
    ELSE ParseNat(s, 0)

\* Split s at every occurrence of sep; the pieces exclude sep.
RECURSIVE Split(_, _)
Split(s, sep) ==
    IF \A i \in 1..Len(s) : s[i] # sep THEN <<s>>
    ELSE LET i == CHOOSE k \in 1..Len(s) : s[k] = sep /\ \A j \in 1..(k - 1) : s[j] # sep
         IN  <<SubSeq(s, 1, i - 1)>> \o Split(SubSeq(s, i + 1, Len(s)), sep)

\* str::lines(): pieces between newlines; a final empty piece is not a line.
Lines(s) ==
    LET pieces == Split(s, "NL")
    IN  IF pieces[Len(pieces)] = <<>> THEN SubSeq(pieces, 1, Len(pieces) - 1) ELSE pieces

\* slice::chunks(BLOCK_SIZE)
RECURSIVE Chunks(_)
Chunks(s) ==
    IF s = <<>> THEN <<>>
    ELSE <<SubSeq(s, 1, Min(BLOCK_SIZE, Len(s)))>> \o Chunks(SubSeq(s, Min(BLOCK_SIZE, Len(s)) + 1, Len(s)))

RECURSIVE Concat(_)
Concat(ss) == IF ss = <<>> THEN <<>> ELSE Head(ss) \o Concat(Tail(ss))

RECURSIVE SelectSeqBy(_, _)
SelectSeqBy(s, lim) ==
    IF s = <<>> THEN <<>>
    ELSE (IF Head(s) > lim THEN <<Head(s)>> ELSE <<>>) \o SelectSeqBy(Tail(s), lim)

\* --------------------------------------------------------- path handling
\* std::path::Path::components() on Unix.
Components(path) ==
    LET hasRoot == path # <<>> /\ path[1] = "/"
        pieces  == Split(path, "/")
        keep(i) == /\ pieces[i] # <<>>
                   /\ (pieces[i] = <<".">> => (i = 1 /\ ~hasRoot))
        kind(p) == IF p = <<".">> THEN "CurDir"
                   ELSE IF p = <<".", ".">> THEN "ParentDir" ELSE "Normal"
        RECURSIVE build(_)
        build(i) == IF i > Len(pieces) THEN <<>>
                    ELSE (IF keep(i) THEN <<[kind |-> kind(pieces[i]), name |-> pieces[i]]>>
                          ELSE <<>>) \o build(i + 1)
    IN  (IF hasRoot THEN <<[kind |-> "RootDir", name |-> <<"/">>]>> ELSE <<>>) \o build(1)

\* Path::file_name(): <<>> stands for None.
FileName(path) ==
    LET cs == Components(path)
    IN  IF cs # <<>> /\ cs[Len(cs)].kind = "Normal" THEN cs[Len(cs)].name ELSE <<>>

\* ------------------------------------------------------------ superblock
\* SuperBlock::default()
DefaultSuperBlock ==
    [sb_magic |-> SB_MAGIC, inodes_count |-> INODES_COUNT, blocks_count |-> BLOCKS_COUNT,
     reserved_blocks_count |-> 0, free_blocks_count |-> 0, free_inodes_count |-> INODES_COUNT]

\* The superblock image of a zeroed block.
ZeroSuperBlock ==
    [sb_magic |-> 0, inodes_count |-> 0, blocks_count |-> 0,
     reserved_blocks_count |-> 0, free_blocks_count |-> 0, free_inodes_count |-> 0]

\* SuperBlock::parse(bytes, magic): the magic of the image must match.
SuperBlockParseOk(image, magic) == image.sb_magic = magic

\* ---------------------------------------------------------------- bitmap
\* A bitmap is the set of indices whose bit is Used.
BitmapNew == {}

SetReserved(bitmap, i) == bitmap \cup {i}

\* NextAvailableAllocation over the data region: the free indices of
\* [DATA_START, TOTAL_BLOCKS) in increasing order.
RECURSIVE FreeFrom(_, _)
FreeFrom(bitmap, i) ==
    IF i >= TOTAL_BLOCKS THEN <<>>
    ELSE (IF i \in bitmap THEN <<>> ELSE <<i>>) \o FreeFrom(bitmap, i + 1)

NextAvailableAllocation(bitmap) == FreeFrom(bitmap, DATA_START)

\* ----------------------------------------------------------- inode group
\* An inode keeps its mode and its 15 direct block pointers; the other
\* fields are never read or written by the filesystem.  blocks lists the
\* pointers up to the last non-zero one: the pointers after them are 0.
ZeroBlocks == <<>>

RootInode == [mode |-> DIR_MODE, blocks |-> <<DATA_START>>]

FileInode == [mode |-> 0, blocks |-> ZeroBlocks]

ZeroInode == [mode |-> 0, blocks |-> ZeroBlocks]

\* Extend or overwrite a finite map.
MapPut(m, k, v) == [x \in (DOMAIN m) \cup {k} |-> IF x = k THEN v ELSE m[x]]

EmptyMap == [x \in {} |-> 0]

\* InodeGroup::new(bitmap): inode 0 is the root directory.
InodeGroupNew(bitmap) ==
    [alloc |-> SetReserved(bitmap, 0), nodes |-> MapPut(EmptyMap, 0, RootInode)]

\* InodeGroup::open(bitmap): no inode is materialised yet.
InodeGroupOpen(bitmap) == [alloc |-> bitmap, nodes |-> EmptyMap]

\* The inode numbers stored in inode block rel.
BlockInums(rel) == (rel * NODES_PER_BLOCK)..(rel * NODES_PER_BLOCK + NODES_PER_BLOCK - 1)

\* InodeGroup::serialize_block(rel): the image maps each allocated inode of
\* the block to its record; the slots it does not name are zero-filled.
SerializeBlock(g, rel) ==
    [i \in (BlockInums(rel) \cap g.alloc) |-> g.nodes[i]]

\* InodeGroup::load_block(rel, image): inodes whose bit is Free are skipped.
LoadBlock(g, rel, image) ==
    LET loaded == BlockInums(rel) \cap g.alloc
    IN  [g EXCEPT !.nodes = [i \in (DOMAIN g.nodes) \cup loaded |->
                                IF i \in loaded
                                THEN (IF i \in DOMAIN image THEN image[i] ELSE ZeroInode)
                                ELSE g.nodes[i]]]

\* InodeGroup::get(inum) is Some iff the inode is allocated.
HasInode(g, inum) == inum \in g.alloc /\ inum \in DOMAIN g.nodes

\* InodeGroup::new_file() has a free inode to hand out.
CanAllocateInode(g) == \E i \in 0..(INODES_COUNT - 1) : i \notin g.alloc

\* The number new_file() returns: the lowest-indexed free inode.
LowestFreeInode(g) ==
    CHOOSE i \in 0..(INODES_COUNT - 1) :
        i \notin g.alloc /\ \A j \in 0..(i - 1) : j \in g.alloc

\* InodeGroup::new_file(): the group after the allocation.
NewFile(g) ==
    LET i == LowestFreeInode(g)
    IN  [alloc |-> SetReserved(g.alloc, i), nodes |-> MapPut(g.nodes, i, FileInode)]

\* InodeGroup::total_nodes()
TotalNodes(g) == Cardinality(g.alloc)

\* ---------------------------------------------------------- block device
\* The device maps each data block that was written to the bytes it holds;
\* the bytes after them, and the blocks never written, are zero.
\* write_block writes one whole block: the buffer, then zeros.
WriteBlock(old, chunk) == chunk

\* read_block returns the whole block.
ReadBlock(stored) ==
    stored \o [i \in 1..(BLOCK_SIZE - Len(stored)) |-> "NUL"]

DataBlocks == DATA_START..(TOTAL_BLOCKS - 1)

\* The bytes stored in data block b.
Stored(data, b) == IF b \in DOMAIN data THEN data[b] ELSE <<>>

\* ----------------------------------------------------------------- state
VARIABLES
    dev_sb,        \* device block 0: the superblock image
    dev_dmap,      \* device block 1: the data-region bitmap image
    dev_imap,      \* device block 2: the inode bitmap image
    dev_iblocks,   \* device blocks 3..7: the inode block images, by relative index
    dev_data,      \* device blocks 8..63: the bytes written to each data block
    status,        \* "none": no SFS object; "mounted"; "panicked": the last call aborted
    super_block,   \* SFS.super_block
    data_map,      \* SFS.data_map
    inodes,        \* SFS.inodes
    result,        \* the last call and what it returned
    created,       \* history: name -> inum its CREATE returned, in the mount that
                   \* formatted the volume; emptied when the volume is reopened
    distinct,      \* history: created holds every CREATE of that mount, each name once
    remounted,     \* history: from_block_storage ran since the format
    nCreated,      \* history: CREATE calls that returned an inum in this mount
    dev_log,       \* the write_block and sync_disk calls the last call issued, in order
    reply          \* the ReplyDirectory of the last readdir: its offset and entries

dev == <<dev_sb, dev_dmap, dev_imap, dev_iblocks, dev_data>>

mem == <<super_block, data_map, inodes>>

hist == <<created, distinct, remounted, nCreated>>

vars == <<dev_sb, dev_dmap, dev_imap, dev_iblocks, dev_data, status, super_block,
          data_map, inodes, result, created, distinct, remounted, nCreated, dev_log, reply>>

\* One call on the device, as dev_log records it.
WriteCall(index) == [op |-> "write_block", index |-> index]

SyncCall == [op |-> "sync_disk", index |-> 0]

\* No readdir was served.
NoReply == [offset |-> 0, entries |-> <<>>]

NoPath == <<>>

\* reads: the read_dir calls the call made.
Result(op, path, mode, kind, inum, reads) ==
    [op |-> op, path |-> path, mode |-> mode, kind |-> kind, inum |-> inum, reads |-> reads]

\* ------------------------------------------------------------- read path
\* SFS::read_file.  The buffer has one byte per allocated block, so taking
\* the slice of a whole block out of it aborts.
ReadFile(sb, g, data, inum) ==
    IF ~HasInode(g, inum) THEN [kind |-> "DoesNotExist", content |-> <<>>]
    ELSE LET allocated_blocks == SelectSeqBy(g.nodes[inum].blocks, sb.inodes_count + 3)
             n == Len(allocated_blocks)
         IN  IF \E i \in 0..(n - 1) : i * BLOCK_SIZE + BLOCK_SIZE > n
             THEN [kind |-> "Panic", content |-> <<>>]
             ELSE IF \E i \in 1..n : allocated_blocks[i] \notin DataBlocks
             THEN [kind |-> "InvalidBlock", content |-> <<>>]
             ELSE [kind |-> "Ok",
                   content |-> Concat([i \in 1..n |-> ReadBlock(Stored(data, allocated_blocks[i]))])]

\* One line of a directory: "<inum>:<name>"; -1 stands for an unwrap that aborts.
ParseLine(line) ==
    LET fields == Split(line, ":")
    IN  IF ParseU32(fields[1]) = -1 \/ Len(fields) < 2
        THEN [inum |-> -1, name |-> <<>>]
        ELSE [inum |-> ParseU32(fields[1]), name |-> fields[2]]

RECURSIVE ParseLines(_, _)
ParseLines(lines, map) ==
    IF lines = <<>> THEN map
    ELSE ParseLines(Tail(lines), MapPut(map, ParseLine(Head(lines)).name, ParseLine(Head(lines)).inum))

\* SFS::read_dir
ReadDir(sb, g, data, inum) ==
    LET file == ReadFile(sb, g, data, inum)
    IN  IF file.kind # "Ok" THEN [kind |-> file.kind, map |-> EmptyMap]
        ELSE IF \E i \in 1..Len(Lines(file.content)) : ParseLine(Lines(file.content)[i]).inum = -1
        THEN [kind |-> "Panic", map |-> EmptyMap]
        ELSE [kind |-> "Ok", map |-> ParseLines(Lines(file.content), EmptyMap)]

\* ------------------------------------------------------------ write path
\* The serialized directory: one "<inum>:<name>\n" per entry, then a NUL.
RECURSIVE Serialize(_)
Serialize(entries) ==
    IF entries = <<>> THEN <<"NUL">>
    ELSE Digits(Head(entries)[2]) \o <<":">> \o Head(entries)[1] \o <<"NL">> \o Serialize(Tail(entries))

\* The chunks written to the blocks, one chunk per block, in order.
\* log lists the write_block calls made so far.
RECURSIVE WriteChunks(_, _, _, _)
WriteChunks(data, chunks, blocks, log) ==
    IF chunks = <<>> THEN [ok |-> TRUE, data |-> data, log |-> log]
    ELSE IF blocks = <<>> \/ Head(blocks) \notin DataBlocks
    THEN [ok |-> FALSE, data |-> data, log |-> log]
    ELSE WriteChunks(MapPut(data, Head(blocks), WriteBlock(Stored(data, Head(blocks)), Head(chunks))),
                     Tail(chunks), Tail(blocks), Append(log, WriteCall(Head(blocks))))

\* Blocks a directory of this many bytes is given: 1 + len / BLOCK_SIZE.
NeededBlocks(len) == 1 + (len \div BLOCK_SIZE)

\* The inode pointers write_dir counts as allocated.
AllocatedBlocks(blocks) == SelectSeqBy(blocks, 8)

\* WriteDir with the bug: the new blocks are not marked in the bitmap.
WriteDir_NoReserve(g, dmap, data, dir, entries) ==
    LET contents == Serialize(entries)
        out(kind, g2, dmap2, data2, log) ==
            [kind |-> kind, inodes |-> g2, data_map |-> dmap2, dev_data |-> data2, log |-> log]
    IN  IF ~HasInode(g, dir) THEN out("Panic", g, dmap, data, <<>>)
        ELSE
        LET allocated_blocks == AllocatedBlocks(g.nodes[dir].blocks)
            needed == NeededBlocks(Len(contents))
            have   == Len(allocated_blocks)
        IN  IF have < needed
            THEN LET free == NextAvailableAllocation(dmap)
                 IN  IF Len(free) < needed - have THEN out("Panic", g, dmap, data, <<>>)
                     ELSE
                     LET new_blocks == SubSeq(free, 1, needed - have)
                         dmap2      == dmap
                         all_blocks == allocated_blocks \o new_blocks
                     IN  IF Len(all_blocks) > NUM_BLOCK_PTRS THEN out("Panic", g, dmap2, data, <<>>)
                         ELSE
                         LET g2 == [g EXCEPT !.nodes[dir].blocks =
                                       all_blocks \o SubSeq(@, Len(all_blocks) + 1, Len(@))]
                             w  == WriteChunks(data, Chunks(contents), all_blocks, <<>>)
                         IN  out(IF w.ok THEN "Ok" ELSE "Panic", g2, dmap2, w.data, w.log)
            ELSE LET w == WriteChunks(data, Chunks(contents), allocated_blocks, <<>>)
                 IN  out(IF w.ok THEN "Ok" ELSE "Panic", g, dmap, w.data, w.log)

\* WriteDir with the bug: the new blocks follow every pointer of the inode,
\* not only the ones counted as allocated.
WriteDir_ChainsAllPointers(g, dmap, data, dir, entries) ==
    LET contents == Serialize(entries)
        out(kind, g2, dmap2, data2, log) ==
            [kind |-> kind, inodes |-> g2, data_map |-> dmap2, dev_data |-> data2, log |-> log]
    IN  IF ~HasInode(g, dir) THEN out("Panic", g, dmap, data, <<>>)
        ELSE
        LET allocated_blocks == AllocatedBlocks(g.nodes[dir].blocks)
            needed == NeededBlocks(Len(contents))
            have   == Len(allocated_blocks)
        IN  IF have < needed
            THEN LET free == NextAvailableAllocation(dmap)
                 IN  IF Len(free) < needed - have THEN out("Panic", g, dmap, data, <<>>)
                     ELSE
                     LET new_blocks == SubSeq(free, 1, needed - have)
                         dmap2      == dmap \cup {new_blocks[i] : i \in 1..Len(new_blocks)}
                         all_blocks == g.nodes[dir].blocks \o new_blocks
                     IN  IF Len(all_blocks) > NUM_BLOCK_PTRS THEN out("Panic", g, dmap2, data, <<>>)
                         ELSE
                         LET g2 == [g EXCEPT !.nodes[dir].blocks =
                                       all_blocks \o SubSeq(@, Len(all_blocks) + 1, Len(@))]
                             w  == WriteChunks(data, Chunks(contents), all_blocks, <<>>)
                         IN  out(IF w.ok THEN "Ok" ELSE "Panic", g2, dmap2, w.data, w.log)
            ELSE LET w == WriteChunks(data, Chunks(contents), allocated_blocks, <<>>)
                 IN  out(IF w.ok THEN "Ok" ELSE "Panic", g, dmap, w.data, w.log)

\* WriteDir with the bug: the bitmap keeps only the bits of the new blocks.
WriteDir_ResetsBitmap(g, dmap, data, dir, entries) ==
    LET contents == Serialize(entries)
        out(kind, g2, dmap2, data2, log) ==
            [kind |-> kind, inodes |-> g2, data_map |-> dmap2, dev_data |-> data2, log |-> log]
    IN  IF ~HasInode(g, dir) THEN out("Panic", g, dmap, data, <<>>)
        ELSE
        LET allocated_blocks == AllocatedBlocks(g.nodes[dir].blocks)
            needed == NeededBlocks(Len(contents))
            have   == Len(allocated_blocks)
        IN  IF have < needed
            THEN LET free == NextAvailableAllocation(dmap)
                 IN  IF Len(free) < needed - have THEN out("Panic", g, dmap, data, <<>>)
                     ELSE
                     LET new_blocks == SubSeq(free, 1, needed - have)
                         dmap2      == {new_blocks[i] : i \in 1..Len(new_blocks)}
                         all_blocks == allocated_blocks \o new_blocks
                     IN  IF Len(all_blocks) > NUM_BLOCK_PTRS THEN out("Panic", g, dmap2, data, <<>>)
                         ELSE
                         LET g2 == [g EXCEPT !.nodes[dir].blocks =
                                       all_blocks \o SubSeq(@, Len(all_blocks) + 1, Len(@))]
                             w  == WriteChunks(data, Chunks(contents), all_blocks, <<>>)
                         IN  out(IF w.ok THEN "Ok" ELSE "Panic", g2, dmap2, w.data, w.log)
            ELSE LET w == WriteChunks(data, Chunks(contents), allocated_blocks, <<>>)
                 IN  out(IF w.ok THEN "Ok" ELSE "Panic", g, dmap, w.data, w.log)

\* SFS::write_dir.  entries lists the map in the order the HashMap iterates.
WriteDir(g, dmap, data, dir, entries) ==
    LET contents == Serialize(entries)
        out(kind, g2, dmap2, data2, log) ==
            [kind |-> kind, inodes |-> g2, data_map |-> dmap2, dev_data |-> data2, log |-> log]
    IN  IF ~HasInode(g, dir) THEN out("Panic", g, dmap, data, <<>>)
        ELSE
        LET allocated_blocks == AllocatedBlocks(g.nodes[dir].blocks)
            needed == NeededBlocks(Len(contents))
            have   == Len(allocated_blocks)
        IN  IF have < needed
            THEN LET free == NextAvailableAllocation(dmap)
                 IN  IF Len(free) < needed - have THEN out("Panic", g, dmap, data, <<>>)
                     ELSE
                     LET new_blocks == SubSeq(free, 1, needed - have)
                         dmap2      == dmap \cup {new_blocks[i] : i \in 1..Len(new_blocks)}
                         all_blocks == allocated_blocks \o new_blocks
                     IN  IF Len(all_blocks) > NUM_BLOCK_PTRS THEN out("Panic", g, dmap2, data, <<>>)
                         ELSE
                         LET g2 == [g EXCEPT !.nodes[dir].blocks =
                                       all_blocks \o SubSeq(@, Len(all_blocks) + 1, Len(@))]
                             w  == WriteChunks(data, Chunks(contents), all_blocks, <<>>)
                         IN  out(IF w.ok THEN "Ok" ELSE "Panic", g2, dmap2, w.data, w.log)
            ELSE LET w == WriteChunks(data, Chunks(contents), allocated_blocks, <<>>)
                 IN  out(IF w.ok THEN "Ok" ELSE "Panic", g, dmap, w.data, w.log)

\* ------------------------------------------------------------------ open
\* The orders in which a HashMap may iterate over map: sequences of
\* <<name, inum>> naming every key once.
Orders(map) ==
    LET n == Cardinality(DOMAIN map)
    IN  {[i \in 1..n |-> <<f[i], map[f[i]]>>] :
            f \in {g \in [1..n -> DOMAIN map] : \A i, j \in 1..n : g[i] = g[j] => i = j}}

\* The loop of SFS::open over the components after the root; reads counts
\* the directories read so far.
RECURSIVE Walk(_, _, _, _, _, _, _)
\* Walk with the bug: an absent final component ends the walk in every mode.
Walk_AbsentIsFound(sb, g, data, parts, inum, mode, reads) ==
    IF parts = <<>> THEN [kind |-> "Done", inum |-> inum, reads |-> reads]
    ELSE LET content == ReadDir(sb, g, data, inum)
             end(kind) == [kind |-> kind, inum |-> inum, reads |-> reads + 1]
         IN  IF content.kind # "Ok" THEN end(content.kind)
             ELSE IF Head(parts).name \notin DOMAIN content.map
             THEN IF Tail(parts) # <<>> THEN end("InvalidArgument")
                  ELSE end("Done")
             ELSE Walk(sb, g, data, Tail(parts), content.map[Head(parts).name], mode, reads + 1)

\* Walk with the bug: CREATE does not look for further components.
Walk_NoSubdirCheck(sb, g, data, parts, inum, mode, reads) ==
    IF parts = <<>> THEN [kind |-> "Done", inum |-> inum, reads |-> reads]
    ELSE LET content == ReadDir(sb, g, data, inum)
             end(kind) == [kind |-> kind, inum |-> inum, reads |-> reads + 1]
         IN  IF content.kind # "Ok" THEN end(content.kind)
             ELSE IF Head(parts).name \notin DOMAIN content.map
             THEN IF mode = "CREATE" THEN end("Done")
                  ELSE IF Tail(parts) # <<>> THEN end("InvalidArgument")
                  ELSE end("DoesNotExist")
             ELSE Walk(sb, g, data, Tail(parts), content.map[Head(parts).name], mode, reads + 1)

Walk(sb, g, data, parts, inum, mode, reads) ==
    IF parts = <<>> THEN [kind |-> "Done", inum |-> inum, reads |-> reads]
    ELSE LET content == ReadDir(sb, g, data, inum)
             end(kind) == [kind |-> kind, inum |-> inum, reads |-> reads + 1]
         IN  IF content.kind # "Ok" THEN end(content.kind)
             ELSE IF Head(parts).name \notin DOMAIN content.map
             THEN IF Tail(parts) # <<>> THEN end("InvalidArgument")
                  ELSE IF mode = "CREATE" THEN end("Done")
                  ELSE end("DoesNotExist")
             ELSE Walk(sb, g, data, Tail(parts), content.map[Head(parts).name], mode, reads + 1)

\* The record an outcome of open is: the returned value, the read_dir
\* calls made, the state the call leaves and the device calls it issued.
\* "Panic" is an abort (unwrap on None, unimplemented!(), slice out of range).
Outcome(kind, inum, reads, g, dmap, data) ==
    [kind |-> kind, inum |-> inum, reads |-> reads,
     inodes |-> g, data_map |-> dmap, dev_data |-> data, log |-> <<>>]

\* StartsAtRoot with the bug: any first component is accepted.
StartsAtRoot_AnyFirst(parts) == parts # <<>>

\* The first component of the path is the root directory.
StartsAtRoot(parts) == parts # <<>> /\ parts[1].kind = "RootDir"

\* CreateOutcomes with the bug: the directory's inum is returned, not the
\* new file's.
CreateOutcomes_ReturnsParent(sb, g, dmap, data, path, inum, reads) ==
    IF ~CanAllocateInode(g) THEN {Outcome("Panic", 0, reads, g, dmap, data)}
    ELSE
    LET created_file == LowestFreeInode(g)
        g1           == NewFile(g)
        parent_dir   == ReadDir(sb, g1, data, inum)
    IN  IF parent_dir.kind # "Ok" THEN {Outcome(parent_dir.kind, 0, reads + 1, g1, dmap, data)}
        ELSE IF FileName(path) = <<>> THEN {Outcome("Panic", 0, reads + 1, g1, dmap, data)}
        ELSE
        {LET w == WriteDir(g1, dmap, data, inum, entries)
         IN  [Outcome(w.kind, IF w.kind = "Ok" THEN inum ELSE 0, reads + 1,
                      w.inodes, w.data_map, w.dev_data) EXCEPT !.log = w.log] :
            entries \in Orders(MapPut(parent_dir.map, FileName(path), created_file))}

\* The CREATE arm of SFS::open; inum is the directory the walk ended in.
\* new_file() returns a plain number, so it cannot report exhaustion.
CreateOutcomes(sb, g, dmap, data, path, inum, reads) ==
    IF ~CanAllocateInode(g) THEN {Outcome("Panic", 0, reads, g, dmap, data)}
    ELSE
    LET created_file == LowestFreeInode(g)
        g1           == NewFile(g)
        parent_dir   == ReadDir(sb, g1, data, inum)
    IN  IF parent_dir.kind # "Ok" THEN {Outcome(parent_dir.kind, 0, reads + 1, g1, dmap, data)}
        ELSE IF FileName(path) = <<>> THEN {Outcome("Panic", 0, reads + 1, g1, dmap, data)}
        ELSE
        {LET w == WriteDir(g1, dmap, data, inum, entries)
         IN  [Outcome(w.kind, IF w.kind = "Ok" THEN created_file ELSE 0, reads + 1,
                      w.inodes, w.data_map, w.dev_data) EXCEPT !.log = w.log] :
            entries \in Orders(MapPut(parent_dir.map, FileName(path), created_file))}

\* FinishOpen with the bug: RO has no arm of its own.
FinishOpen_NoRO(sb, g, dmap, data, path, mode, inum, reads) ==
    IF mode = "CREATE" THEN CreateOutcomes(sb, g, dmap, data, path, inum, reads)
    ELSE {Outcome("Panic", 0, reads, g, dmap, data)}

\* The match on mode that ends SFS::open.
FinishOpen(sb, g, dmap, data, path, mode, inum, reads) ==
    IF mode = "CREATE" THEN CreateOutcomes(sb, g, dmap, data, path, inum, reads)
    ELSE IF mode = "RO" THEN {Outcome("Ok", inum, reads, g, dmap, data)}
    ELSE {Outcome("Panic", 0, reads, g, dmap, data)}

\* SFS::open as a function of the state: the set of its outcomes.
OpenOutcomes(sb, g, dmap, data, path, mode) ==
    LET parts == Components(path)
    IN  IF ~StartsAtRoot(parts) THEN {Outcome("InvalidArgument", 0, 0, g, dmap, data)}
        ELSE
        LET walk == Walk(sb, g, data, Tail(parts), 0, mode, 0)
        IN  IF walk.kind # "Done" THEN {Outcome(walk.kind, 0, walk.reads, g, dmap, data)}
            ELSE FinishOpen(sb, g, dmap, data, path, mode, walk.inum, walk.reads)

\* --------------------------------------------------------------- actions
\* The state of the variables that belong to no SFS object.
NoSuperBlock == ZeroSuperBlock

NoInodes == InodeGroupOpen(BitmapNew)

\* Create with the bug: the bitmap written to block 2 is the empty one the
\* inode group was built from.
Create_EmptyInodeBitmap ==
    /\ status # "mounted"
    /\ dev_sb' = DefaultSuperBlock
    /\ dev_dmap' = BitmapNew
    /\ inodes' = InodeGroupNew(BitmapNew)
    /\ dev_imap' = BitmapNew
    /\ dev_iblocks' = [dev_iblocks EXCEPT ![0] = SerializeBlock(inodes', 0)]
    /\ super_block' = DefaultSuperBlock
    /\ data_map' = BitmapNew
    /\ status' = "mounted"
    /\ result' = Result("create", NoPath, "-", "Ok", 0, 0)
    /\ created' = EmptyMap
    /\ distinct' = TRUE
    /\ remounted' = FALSE
    /\ nCreated' = 0
    /\ dev_log' = <<WriteCall(0), WriteCall(1), WriteCall(2), WriteCall(3), SyncCall>>
    /\ reply' = NoReply
    /\ UNCHANGED dev_data

\* Create with the bug: sync_disk is called before inode block 0 is written.
Create_SyncsBeforeInodes ==
    /\ status # "mounted"
    /\ dev_sb' = DefaultSuperBlock
    /\ dev_dmap' = BitmapNew
    /\ inodes' = InodeGroupNew(BitmapNew)
    /\ dev_imap' = inodes'.alloc
    /\ dev_iblocks' = [dev_iblocks EXCEPT ![0] = SerializeBlock(inodes', 0)]
    /\ super_block' = DefaultSuperBlock
    /\ data_map' = BitmapNew
    /\ status' = "mounted"
    /\ result' = Result("create", NoPath, "-", "Ok", 0, 0)
    /\ created' = EmptyMap
    /\ distinct' = TRUE
    /\ remounted' = FALSE
    /\ nCreated' = 0
    /\ dev_log' = <<WriteCall(0), WriteCall(1), WriteCall(2), SyncCall, WriteCall(3)>>
    /\ reply' = NoReply
    /\ UNCHANGED dev_data

\* SFS::create(dev): format the device and return the filesystem.
Create ==
    /\ status # "mounted"
    /\ dev_sb' = DefaultSuperBlock
    /\ dev_dmap' = BitmapNew
    /\ inodes' = InodeGroupNew(BitmapNew)
    /\ dev_imap' = inodes'.alloc
    /\ dev_iblocks' = [dev_iblocks EXCEPT ![0] = SerializeBlock(inodes', 0)]
    /\ super_block' = DefaultSuperBlock
    /\ data_map' = BitmapNew
    /\ status' = "mounted"
    /\ result' = Result("create", NoPath, "-", "Ok", 0, 0)
    /\ created' = EmptyMap
    /\ distinct' = TRUE
    /\ remounted' = FALSE
    /\ nCreated' = 0
    /\ dev_log' = <<WriteCall(0), WriteCall(1), WriteCall(2), WriteCall(3), SyncCall>>
    /\ reply' = NoReply
    /\ UNCHANGED dev_data

\* The inode group from_block_storage builds from the device.
RECURSIVE LoadBlocks(_, _, _)
LoadBlocks(g, images, rel) ==
    IF rel >= INODE_BLOCKS THEN g
    ELSE LoadBlocks(LoadBlock(g, rel, images[rel]), images, rel + 1)

\* SFS::from_block_storage(dev): adopt the volume on the device.
FromBlockStorage ==
    /\ status # "mounted"
    /\ IF SuperBlockParseOk(dev_sb, SB_MAGIC)
       THEN /\ super_block' = dev_sb
            /\ data_map' = dev_dmap
            /\ inodes' = LoadBlocks(InodeGroupOpen(dev_imap), dev_iblocks, 0)
            /\ status' = "mounted"
            /\ result' = Result("from_block_storage", NoPath, "-", "Ok", 0, 0)
       ELSE /\ super_block' = NoSuperBlock
            /\ data_map' = BitmapNew
            /\ inodes' = NoInodes
            /\ status' = "panicked"
            /\ result' = Result("from_block_storage", NoPath, "-", "Panic", 0, 0)
    /\ remounted' = TRUE
    /\ nCreated' = 0
    /\ created' = EmptyMap
    /\ distinct' = FALSE
    /\ dev_log' = <<>>
    /\ reply' = NoReply
    /\ UNCHANGED dev

\* SFS::open(path, mode)
Open(path, mode) ==
    /\ status = "mounted"
    /\ \E o \in OpenOutcomes(super_block, inodes, data_map, dev_data, path, mode) :
          /\ inodes' = o.inodes
          /\ data_map' = o.data_map
          /\ dev_data' = o.dev_data
          /\ status' = IF o.kind = "Panic" THEN "panicked" ELSE "mounted"
          /\ result' = Result("open", path, mode, o.kind, o.inum, o.reads)
          /\ dev_log' = o.log
          /\ nCreated' = IF o.kind = "Ok" /\ mode = "CREATE" THEN nCreated + 1 ELSE nCreated
          /\ IF o.kind = "Ok" /\ mode = "CREATE" /\ ~remounted
             THEN IF distinct /\ FileName(path) \notin DOMAIN created
                  THEN /\ created' = MapPut(created, FileName(path), o.inum)
                       /\ distinct' = TRUE
                  ELSE /\ created' = EmptyMap
                       /\ distinct' = FALSE
             ELSE UNCHANGED <<created, distinct>>
    /\ reply' = NoReply
    /\ UNCHANGED <<dev_sb, dev_dmap, dev_imap, dev_iblocks, super_block, remounted>>

\* The entries readdir adds to its reply: (ino, offset, kind, name).
DotEntries ==
    <<[ino |-> 1, offset |-> 1, kind |-> "Directory", name |-> <<".">>],
      [ino |-> 1, offset |-> 2, kind |-> "Directory", name |-> <<".", ".">>]>>

\* Filesystem::readdir as a function of the state: the set of its outcomes.
\* ino is the bridge's number, one more than the inode's.  ino - 1 on the
\* u64 0 aborts in a build that checks overflow and wraps in one that does
\* not; the wrapped number names no inode.
ReaddirOutcomes(sb, g, data, ino, offset) ==
    IF ino = 0 THEN {[kind |-> "Panic", entries |-> <<>>], [kind |-> "ENOENT", entries |-> <<>>]}
    ELSE LET contents == ReadDir(sb, g, data, ino - 1)
         IN  IF contents.kind = "Panic" THEN {[kind |-> "Panic", entries |-> <<>>]}
             ELSE IF contents.kind # "Ok" THEN {[kind |-> "ENOENT", entries |-> <<>>]}
             ELSE IF offset = 2 THEN {[kind |-> "ok", entries |-> <<>>]}
             ELSE {[kind |-> "ok", entries |-> DotEntries]}

\* Filesystem::readdir(ino, offset)
Readdir(ino, offset) ==
    /\ status = "mounted"
    /\ \E o \in ReaddirOutcomes(super_block, inodes, dev_data, ino, offset) :
          /\ status' = IF o.kind = "Panic" THEN "panicked" ELSE "mounted"
          /\ result' = Result("readdir", NoPath, "-", o.kind, ino, 1)
          /\ reply' = [offset |-> offset, entries |-> o.entries]
    /\ dev_log' = <<>>
    /\ UNCHANGED <<dev, mem, hist>>

\* The SFS object is dropped: the device keeps what was written to it.
Close ==
    /\ status = "mounted"
    /\ status' = "none"
    /\ super_block' = NoSuperBlock
    /\ data_map' = BitmapNew
    /\ inodes' = NoInodes
    /\ result' = Result("close", NoPath, "-", "Ok", 0, 0)
    /\ dev_log' = <<>>
    /\ reply' = NoReply
    /\ UNCHANGED <<dev, hist>>

\* A device that was never written.
BlankDevice ==
    /\ dev_sb = ZeroSuperBlock
    /\ dev_dmap = BitmapNew
    /\ dev_imap = BitmapNew
    /\ dev_iblocks = [rel \in 0..(INODE_BLOCKS - 1) |-> EmptyMap]
    /\ dev_data = EmptyMap

NoFilesystem ==
    /\ status = "none"
    /\ super_block = NoSuperBlock
    /\ data_map = BitmapNew
    /\ inodes = NoInodes
    /\ result = Result("init", NoPath, "-", "Ok", 0, 0)
    /\ created = EmptyMap
    /\ distinct = TRUE
    /\ remounted = FALSE
    /\ nCreated = 0
    /\ dev_log = <<>>
    /\ reply = NoReply

Init == BlankDevice /\ NoFilesystem

\* A blank device is formatted once, then mounted, used and remounted.
Format == dev_sb = ZeroSuperBlock /\ Create

\* open on any path in any mode, with at most MaxCreates files per mount.
OpenAny ==
    \E path \in Paths, mode \in OpenMode :
        /\ mode = "CREATE" => nCreated < MaxCreates
        /\ Open(path, mode)

Next == Format \/ FromBlockStorage \/ OpenAny \/ Close

Spec == Init /\ [][Next]_vars

\* The same filesystem filled until its inodes run out: open on the paths
\* of FillPaths in any mode, with no limit on the files created.
FillPaths == {<<>>, <<"/">>, <<"/", "a">>, <<"/", "a", "/", "a">>}

OpenFill == \E path \in FillPaths, mode \in OpenMode : Open(path, mode)

NextFill == Format \/ OpenFill

SpecFill == Init /\ [][NextFill]_vars

\* A device that holds a volume whose data region is all reserved, or all
\* but its last block; the root directory has not been written yet.
FullVolume ==
    /\ dev_sb = DefaultSuperBlock
    /\ dev_dmap \in {DataBlocks \ free : free \in {{}, {TOTAL_BLOCKS - 1}}}
    /\ dev_imap = {0}
    /\ dev_iblocks = [rel \in 0..(INODE_BLOCKS - 1) |->
                         IF rel = 0 THEN MapPut(EmptyMap, 0, RootInode) ELSE EmptyMap]
    /\ dev_data = EmptyMap

InitVolume == FullVolume /\ NoFilesystem

NextVolume == FromBlockStorage \/ OpenAny \/ Close

SpecVolume == InitVolume /\ [][NextVolume]_vars

\* Directories at the block boundary: files whose names make the
\* serialized root directory 4095 and 4096 bytes long, and a short one.
LongName(n) == [i \in 1..n |-> "a"]

SizePaths ==
    {<<"/">> \o LongName(n) : n \in {1, BLOCK_SIZE - 5, BLOCK_SIZE - 4}}

OpenSize ==
    \E path \in SizePaths, mode \in OpenMode :
        /\ mode = "CREATE" => nCreated < MaxCreates
        /\ Open(path, mode)

NextSize == Format \/ OpenSize

SpecSize == Init /\ [][NextSize]_vars

\* The formatter run again and again on one device: create is called
\* whether or not the device already holds a volume (cmd/utils.rs).
NextReformat == Create \/ OpenAny \/ Close

SpecReformat == Init /\ [][NextReformat]_vars

\* The filesystem served through the bridge: readdir on any inode number
\* and offset, between the opens that fill the volume.
ReaddirAny == \E ino \in 0..MaxIno, offset \in 0..MaxOffset : Readdir(ino, offset)

NextBridge == Format \/ OpenFill \/ ReaddirAny

SpecBridge == Init /\ [][NextBridge]_vars

\* ---------------------------------------------------------------- claims
\* The last call was open(path, mode).
Opened(mode) == result.op = "open" /\ result.mode = mode

\* path is "/<name>": the root and one file name.
IsRootChild(path) ==
    /\ StartsAtRoot(Components(path))
    /\ Len(Components(path)) = 2
    /\ FileName(path) # <<>>

\* C1: in the mount that formatted the volume, after CREATE calls with
\* pairwise distinct names, every open("/<name>", RO) of a created name
\* returns the inum its CREATE returned.
C1_CreateThenLookup ==
    (/\ Opened("RO")
     /\ ~remounted
     /\ distinct
     /\ IsRootChild(result.path)
     /\ FileName(result.path) \in DOMAIN created)
    => (result.kind = "Ok" /\ result.inum = created[FileName(result.path)])

\* C2: when the filesystem that formatted the device is dropped and the
\* device is reopened with from_block_storage, every inode a returned
\* CREATE allocated is allocated and read_dir(0) is exactly the entries the
\* CREATE calls wrote.
C2_CreationsSurviveRemount ==
    [][(/\ result.op = "close"
        /\ ~remounted
        /\ distinct
        /\ result'.op = "from_block_storage")
       => (/\ status' = "mounted"
           /\ \A name \in DOMAIN created : created[name] \in inodes'.alloc
           /\ ReadDir(super_block', inodes', dev_data', 0) = [kind |-> "Ok", map |-> created])]_vars

\* C3: on a freshly formatted volume the k-th CREATE that returns an inum
\* returns k, the lowest-indexed free inode, for k = 1..79, whatever other
\* opens came in between.
C3_KthCreateReturnsK ==
    (Opened("CREATE") /\ result.kind = "Ok" /\ ~remounted)
    => (/\ result.inum = nCreated
        /\ nCreated \in 1..(INODES_COUNT - 1)
        /\ \A j \in 0..result.inum : j \in inodes.alloc)

C3_Witness ==
    /\ Opened("CREATE")
    /\ result.kind = "Ok"
    /\ ~remounted
    /\ result.inum = INODES_COUNT - 1

\* The components of path after the root.
Parts(path) == Tail(Components(path))

\* The first k components after the root all resolve: the walk over them
\* ends in a directory.
Resolves(path, k) ==
    Walk(super_block, inodes, dev_data, SubSeq(Parts(path), 1, k), 0, "RO", 0).kind = "Done"

\* The directory the first k components lead to, as read_dir reads it.
DirAt(path, k) ==
    ReadDir(super_block, inodes, dev_data,
            Walk(super_block, inodes, dev_data, SubSeq(Parts(path), 1, k), 0, "RO", 0).inum)

\* Component k of path is not an entry of the directory before it, which exists.
AbsentAt(path, k) ==
    /\ Resolves(path, k - 1)
    /\ DirAt(path, k - 1).kind = "Ok"
    /\ Parts(path)[k].name \notin DOMAIN DirAt(path, k - 1).map

\* C4: open(path, RO) on a path whose parent directories exist and whose
\* final component is not an entry of its parent fails with DoesNotExist
\* and allocates no inode and no data block.
C4_AbsentFileDoesNotExist ==
    [][(/\ status = "mounted"
        /\ result'.op = "open"
        /\ result'.mode = "RO"
        /\ StartsAtRoot(Components(result'.path))
        /\ Parts(result'.path) # <<>>
        /\ AbsentAt(result'.path, Len(Parts(result'.path))))
       => (/\ result'.kind = "DoesNotExist"
           /\ inodes' = inodes
           /\ data_map' = data_map)]_vars

C4_Witness ==
    /\ Opened("RO")
    /\ IsRootChild(result.path)
    /\ result.kind = "DoesNotExist"
    /\ ~remounted
    /\ distinct
    /\ created # EmptyMap
    /\ FileName(result.path) \notin DOMAIN created

\* C5: open(path, mode) with a non-final component that is absent from the
\* directory being walked fails with InvalidArgument in every mode; no
\* inode is allocated and no directory is written.
C5_MissingSubdirectory ==
    [][(/\ status = "mounted"
        /\ result'.op = "open"
        /\ StartsAtRoot(Components(result'.path))
        /\ \E k \in 1..(Len(Parts(result'.path)) - 1) : AbsentAt(result'.path, k))
       => (/\ result'.kind = "InvalidArgument"
           /\ inodes' = inodes
           /\ data_map' = data_map
           /\ dev_data' = dev_data)]_vars

C5_Witness ==
    /\ Opened("CREATE")
    /\ Len(Components(result.path)) = 3
    /\ result.kind = "InvalidArgument"
    /\ nCreated > 0

\* C6: open with the empty path or a path that does not start with "/"
\* fails with InvalidArgument in every mode, reads no directory and
\* changes nothing.
C6_PathMustStartAtRoot ==
    [][(/\ status = "mounted"
        /\ result'.op = "open"
        /\ (result'.path = <<>> \/ result'.path[1] # "/"))
       => (/\ result'.kind = "InvalidArgument"
           /\ result'.reads = 0
           /\ status' = "mounted"
           /\ UNCHANGED <<dev, mem>>)]_vars

C6_Witness ==
    /\ Opened("CREATE")
    /\ result.path = <<>>
    /\ result.kind = "InvalidArgument"
    /\ nCreated > 0

\* C7: open("/", RO) returns inum 0 in every state.
C7_RootIsInodeZero ==
    (Opened("RO") /\ result.path = <<"/">>) => (result.kind = "Ok" /\ result.inum = 0)

C7_Witness ==
    /\ Opened("RO")
    /\ result.path = <<"/">>
    /\ result.inum = 0
    /\ nCreated > 0

\* C8: when the filesystem that formatted the device is dropped with no file
\* created and the device is reopened, from_block_storage succeeds and the
\* inode group counts one allocated inode, the root.
C8_FormatRoundTrip ==
    [][(/\ result.op = "close"
        /\ ~remounted
        /\ distinct
        /\ created = EmptyMap
        /\ result'.op = "from_block_storage")
       => (/\ result'.kind = "Ok"
           /\ status' = "mounted"
           /\ TotalNodes(inodes') = 1
           /\ HasInode(inodes', 0))]_vars

C8_Witness ==
    /\ result.op = "from_block_storage"
    /\ result.kind = "Ok"
    /\ dev_data = EmptyMap
    /\ TotalNodes(inodes) = 1

\* C9: with all 80 inodes allocated, open(path, CREATE) fails with the
\* error value OutOfSpace and leaves the inode bitmap as it was.
C9_InodeExhaustionIsAnError ==
    [][(/\ status = "mounted"
        /\ TotalNodes(inodes) = INODES_COUNT
        /\ result'.op = "open"
        /\ result'.mode = "CREATE"
        /\ IsRootChild(result'.path))
       => (/\ result'.kind = "OutOfSpace"
           /\ status' = "mounted"
           /\ inodes'.alloc = inodes.alloc)]_vars

\* C10: with all 56 data blocks Used, a directory write that needs one more
\* block fails with the error value OutOfSpace.
C10_DataExhaustionIsAnError ==
    [][(/\ status = "mounted"
        /\ DataBlocks \subseteq data_map
        /\ HasInode(inodes, 0)
        /\ Len(AllocatedBlocks(inodes.nodes[0].blocks)) < NeededBlocks(0)
        /\ result'.op = "open"
        /\ result'.mode = "CREATE"
        /\ IsRootChild(result'.path))
       => (/\ result'.kind = "OutOfSpace"
           /\ status' = "mounted")]_vars

\* C11: from_block_storage on a device whose superblock magic is not
\* SB_MAGIC fails with the error value InvalidBlock and yields no
\* filesystem object.
C11_BadMagicIsInvalidBlock ==
    [][(/\ ~SuperBlockParseOk(dev_sb, SB_MAGIC)
        /\ result'.op = "from_block_storage")
       => (/\ result'.kind = "InvalidBlock"
           /\ status' # "mounted")]_vars

\* The inode bitmap, the data bitmap and every inode's block pointers.
Allocation == <<inodes.alloc, data_map, [i \in DOMAIN inodes.nodes |-> inodes.nodes[i].blocks]>>

\* C12: an open call that does not return an inum, in any mode and for any
\* path, leaves the device, the inode bitmap, the data bitmap and every
\* inode's block pointers as they were before the call.
C12_FailedOpenChangesNothing ==
    [][(/\ status = "mounted"
        /\ result'.op = "open"
        /\ result'.kind # "Ok")
       => (/\ dev' = dev
           /\ Allocation' = Allocation)]_vars

\* C13: open in mode WO, RW or DIRECTORY on a path that starts at the root
\* and whose non-final components all exist fails with Unimplemented,
\* whether or not the final component exists, and changes no state.
C13_OtherModesUnimplemented ==
    [][(/\ status = "mounted"
        /\ result'.op = "open"
        /\ result'.mode \in {"WO", "RW", "DIRECTORY"}
        /\ StartsAtRoot(Components(result'.path))
        /\ Resolves(result'.path, Len(Parts(result'.path)) - 1))
       => (/\ result'.kind = "Unimplemented"
           /\ status' = "mounted"
           /\ UNCHANGED <<dev, mem>>)]_vars

\* C14: create on a device that already holds a formatted volume refuses:
\* it returns no filesystem object and leaves every block of the device
\* unchanged.
C14_FormatRefusesFormattedDevice ==
    [][(/\ SuperBlockParseOk(dev_sb, SB_MAGIC)
        /\ result'.op = "create")
       => (/\ result'.kind # "Ok"
           /\ status' # "mounted"
           /\ dev' = dev)]_vars

\* The last call was readdir on an allocated directory inode.
ReaddirOnDirectory ==
    /\ result.op = "readdir"
    /\ result.inum >= 1
    /\ HasInode(inodes, result.inum - 1)
    /\ inodes.nodes[result.inum - 1].mode = DIR_MODE

\* C15: readdir on an allocated directory inode replies ok; with offset 0
\* it emits exactly "." (entry offset 1) and ".." (entry offset 2); with
\* any offset of 2 or more it emits no entry.
C15_ReaddirPaging ==
    ReaddirOnDirectory
    => (/\ result.kind = "ok"
        /\ reply.offset = 0 => reply.entries = DotEntries
        /\ reply.offset >= 2 => reply.entries = <<>>)

\* The directory open(path, CREATE) writes: the one its walk ends in.
CreateDir(path) == Walk(super_block, inodes, dev_data, Parts(path), 0, "CREATE", 0).inum

\* The mapping open(path, CREATE) hands to write_dir when it returns inum.
Written(path, inum) ==
    MapPut(ReadDir(super_block, inodes, dev_data, CreateDir(path)).map, FileName(path), inum)

\* The last action was an open(path, CREATE) that returned an inum.
CreateReturned ==
    /\ status = "mounted"
    /\ result'.op = "open"
    /\ result'.mode = "CREATE"
    /\ result'.kind = "Ok"

\* C16: write_dir(dir, mapping) followed by read_dir(dir) returns the
\* mapping that was written.
C16_DirectoryRoundTrip ==
    [][CreateReturned
       => (ReadDir(super_block', inodes', dev_data', CreateDir(result'.path))
             = [kind |-> "Ok", map |-> Written(result'.path, result'.inum)])]_vars

\* The block pointers of inode i that address the data region.
Pointers(i) == {inodes.nodes[i].blocks[k] : k \in 1..Len(inodes.nodes[i].blocks)} \cap DataBlocks

\* The allocated inodes.
Allocated == inodes.alloc \cap DOMAIN inodes.nodes

\* C17: every value greater than 8 in the block pointers of an allocated
\* inode is marked Used in the in-memory data bitmap.
C17_ReferencedBlocksAreUsed ==
    \A i \in Allocated :
        \A k \in 1..Len(inodes.nodes[i].blocks) :
            inodes.nodes[i].blocks[k] > 8 => inodes.nodes[i].blocks[k] \in data_map

C17_Witness ==
    /\ Opened("CREATE")
    /\ result.kind = "Ok"
    /\ \E k \in 1..Len(inodes.nodes[0].blocks) : inodes.nodes[0].blocks[k] > 8
    /\ Len(inodes.nodes[0].blocks) > 1

\* C18: no data-block index is among the block pointers of two different
\* inodes, nor twice among the block pointers of one inode.
C18_NoSharedBlock ==
    /\ \A i, j \in Allocated : i # j => Pointers(i) \cap Pointers(j) = {}
    /\ \A i \in Allocated :
          \A k, l \in 1..Len(inodes.nodes[i].blocks) :
              (k # l /\ inodes.nodes[i].blocks[k] \in DataBlocks)
              => inodes.nodes[i].blocks[k] # inodes.nodes[i].blocks[l]

C18_Witness ==
    /\ Opened("CREATE")
    /\ result.kind = "Ok"
    /\ nCreated = MaxCreates
    /\ Cardinality(Pointers(0)) > 1
    /\ 8 \notin Pointers(0)

\* C19: create issues write_block on blocks 0, 1, 2, 3 in this order and
\* then sync_disk once; no other operation calls sync_disk, and
\* from_block_storage issues no write.
C19_WriteSyncOrdering ==
    /\ result.op = "create"
       => dev_log = <<WriteCall(0), WriteCall(1), WriteCall(2), WriteCall(3), SyncCall>>
    /\ result.op # "create" => \A i \in 1..Len(dev_log) : dev_log[i] # SyncCall
    /\ result.op = "from_block_storage" => dev_log = <<>>

C19_Witness ==
    /\ Opened("CREATE")
    /\ result.kind = "Ok"
    /\ remounted
    /\ dev_log # <<>>

\* The byte length of the serialized mapping, its trailing NUL included.
SerializedLen(map) == Len(Serialize(CHOOSE entries \in Orders(map) : TRUE))

\* The pointers of inode i that write_dir counts as allocated, after the call.
AllocatedAfter(i) == Len(AllocatedBlocks(inodes'.nodes[i].blocks))

\* C20: after write_dir the directory inode holds max(previous count,
\* ceil(len / 4096)) allocated data blocks, len being the serialized length,
\* and the data bitmap gained exactly the difference.
C20_WriteDirSizing ==
    [][CreateReturned
       => LET dir  == CreateDir(result'.path)
              prev == Len(AllocatedBlocks(inodes.nodes[dir].blocks))
              len  == SerializedLen(Written(result'.path, result'.inum))
              ceil == IF len = 0 THEN 1 ELSE (len + BLOCK_SIZE - 1) \div BLOCK_SIZE
              want == IF prev > ceil THEN prev ELSE ceil
          IN  /\ AllocatedAfter(dir) = want
              /\ data_map \subseteq data_map'
              /\ Cardinality(data_map' \ data_map) = want - prev]_vars

\* C21: across open calls on a mounted filesystem no bit that is Used in
\* the inode bitmap or in the data bitmap becomes Free, and inode 0 is
\* allocated before and after every call.
C21_AllocationIsMonotonic ==
    [][(/\ status = "mounted"
        /\ result'.op = "open")
       => (/\ inodes.alloc \subseteq inodes'.alloc
           /\ data_map \subseteq data_map'
           /\ HasInode(inodes, 0)
           /\ HasInode(inodes', 0))]_vars

C21_Witness ==
    /\ Opened("CREATE")
    /\ result.kind = "Ok"
    /\ remounted
    /\ Cardinality(data_map) > 1
    /\ TotalNodes(inodes) > 2

\* The directories: the allocated inodes whose mode is that of a directory.
Directories == {d \in Allocated : inodes.nodes[d].mode = DIR_MODE}

\* The entries that name inode i: the pairs of a directory and a name that
\* read_dir of the directory maps to i.
NamedBy(i) ==
    {dn \in UNION {{<<d, n>> : n \in DOMAIN ReadDir(super_block, inodes, dev_data, d).map} :
                      d \in Directories} :
        ReadDir(super_block, inodes, dev_data, dn[1]).map[dn[2]] = i}

\* C22: every allocated inode other than the root is named by exactly one
\* entry of exactly one directory.
C22_NoOrphanInodes ==
    \A i \in Allocated \ {0} : Cardinality(NamedBy(i)) = 1

\* C23: every index marked Used in the data bitmap is among the block
\* pointers of an allocated inode, pointer 8 included.
C23_NoLeakedBlocks ==
    \A b \in data_map : \E i \in Allocated : b \in Pointers(i)

====
